---- MODULE Spec2Model ----
(***************************************************************************)
(* ord_by_key: the attribute macro ord_eq_by_key_selector.                 *)
(*                                                                         *)
(* Two state machines over one set of variables:                           *)
(*   Spec       the code the macro generates (key functions, eq, cmp,      *)
(*              partial_cmp), run on one pair of values of one annotated   *)
(*              structure, one statement group per step;                   *)
(*   ParseSpec  the attribute parser (impl Parse for MacroAttribute and    *)
(*              for ParamDefinition), run on one token stream, one         *)
(*              input.parse() per step.                                    *)
(***************************************************************************)
EXTENDS Integers, Sequences, FiniteSets, TLC

VARIABLES
    decl,       \* the annotated structure: binding, key expressions, field types
    self,       \* &self, a sequence of field values
    other,      \* &other
    op,         \* the trait method that was called: "eq", "cmp", "partial_cmp"
    frame,      \* the method body that is executing
    i,          \* index of the key block being executed (0-based, as in the code)
    pc,         \* position inside the generated body
    key_self,   \* let key_self = ...
    key_other,  \* let key_other = ...
    ret,        \* the returned value
    evals,      \* every key function call made so far, in order: <<index, operand>>
    input,      \* the attribute's token stream
    pos,        \* number of tokens consumed from input
    ppc,        \* position inside MacroAttribute::parse
    param,      \* the parsed ParamDefinition
    exprs       \* let mut exprs = vec![]

cmpVars == <<decl, self, other, op, frame, i, pc, key_self, key_other, ret, evals>>
parseVars == <<input, pos, ppc, param, exprs>>
vars == <<decl, self, other, op, frame, i, pc, key_self, key_other, ret, evals,
          input, pos, ppc, param, exprs>>

(***************************************************************************)
(* Bounds.                                                                 *)
(***************************************************************************)
\* Width of the modelled signed integer type (i32 scaled down).
IntBits == 5
\* Longest key list.
MaxKeys == 2
\* Largest value of the narrow field sample 0..MaxSmall (the tests use 0, 1, 2).
MaxSmall == 2

IntMin == -(2 ^ (IntBits - 1))
IntMax == 2 ^ (IntBits - 1) - 1

\* Two's complement wrap-around of an out-of-range result.
WrapInt(x) == ((x - IntMin) % (2 ^ IntBits)) + IntMin

\* Sample of the integer type: both scenario values of the I32ByAbs example,
\* a pair with equal absolute value, zero and the minimum.
WideVals == {IntMin, -11, -1, 0, 1, 10}
NarrowVals == 0 .. MaxSmall

FieldVals(ty) == IF ty = "wide" THEN WideVals ELSE NarrowVals

\* All sequences over S of length lo..hi.
SeqsOf(S, lo, hi) == UNION {[1 .. n -> S] : n \in lo .. hi}

(***************************************************************************)
(* ParamDefinition and key expressions.                                    *)
(***************************************************************************)
SingleIdentifier(ident) == [kind |-> "SingleIdentifier", names |-> <<ident>>]
Tuple(idents) == [kind |-> "Tuple", names |-> idents]

\* A key expression: Reverse applied rev times to  base  or  base.abs(), where
\* base is  name.idx  (a field of the value bound to name) or  name  itself.
Field(name, idx) == [base |-> "field", name |-> name, idx |-> idx, abs |-> FALSE, rev |-> 0]
Var(name) == [base |-> "var", name |-> name, idx |-> 0, abs |-> FALSE, rev |-> 0]
AbsOf(e) == [e EXCEPT !.abs = TRUE]
ReverseOf(e) == [e EXCEPT !.rev = @ + 1]

\* Position of name in a sequence of names (0 when absent).
IndexOf(names, name) ==
    IF \E k \in 1 .. Len(names) : names[k] = name
    THEN CHOOSE k \in 1 .. Len(names) : names[k] = name
    ELSE 0

\* let #key_selector_param = _ord_eq_by_key_selector_do_not_use;
\* the value a name stands for inside a key expression.  A single identifier
\* is bound to the whole structure; the pattern Self(n0, n1, ...) binds each
\* name to the field at the same position.
\* Variant of Bind: the names of the pattern taken in reverse order.
BindMut(p, v, name, idx) ==
    IF p.kind = "SingleIdentifier"
    THEN v[idx + 1]
    ELSE v[Len(p.names) + 1 - IndexOf(p.names, name)]
Bind(p, v, name, idx) ==
    IF p.kind = "SingleIdentifier"
    THEN v[idx + 1]
    ELSE v[IndexOf(p.names, name)]

\* i.abs() on the fixed-width integer: the mathematical result, which is out
\* of range exactly for the minimum.
AbsExact(x) == IF x < 0 THEN -x ELSE x

\* The outcomes of evaluating key expression e on value v.  abs() of the
\* minimum overflows: a build with overflow checks panics, one without wraps.
EvalKey(p, e, v) ==
    LET x == Bind(p, v, e.name, e.idx)
        y == IF e.abs THEN AbsExact(x) ELSE x
        k == [v |-> WrapInt(y), rev |-> e.rev]
    IN  IF y \in IntMin .. IntMax
        THEN {[ok |-> TRUE, key |-> k]}
        ELSE {[ok |-> TRUE, key |-> k], [ok |-> FALSE, key |-> k]}

\* The key a returning call of key function e yields.
KeyOf(p, e, v) == (CHOOSE o \in EvalKey(p, e, v) : o.ok).key

(***************************************************************************)
(* The keys' own Ord and PartialEq.                                        *)
(***************************************************************************)
IntCmp(x, y) == IF x < y THEN "Less" ELSE IF x > y THEN "Greater" ELSE "Equal"

ReverseOrdering(o) ==
    IF o = "Less" THEN "Greater" ELSE IF o = "Greater" THEN "Less" ELSE "Equal"

\* key_self.cmp(&key_other): the integer order under rev layers of Reverse,
\* each of which swaps the operands.
RECURSIVE KeyCmp(_, _)
\* Variant of KeyCmp: Reverse compares like the value it wraps.
KeyCmpMut(ka, kb) == IntCmp(ka.v, kb.v)
KeyCmp(ka, kb) ==
    IF ka.rev = 0
    THEN IntCmp(ka.v, kb.v)
    ELSE KeyCmp([kb EXCEPT !.rev = @ - 1], [ka EXCEPT !.rev = @ - 1])

\* key_self.eq(&key_other)
KeyEq(ka, kb) == ka.v = kb.v

(***************************************************************************)
(* The generated bodies.                                                   *)
(***************************************************************************)
BoolRet(t) == [tag |-> "bool", val |-> IF t THEN "true" ELSE "false"]
OrdRet(o) == [tag |-> "Ordering", val |-> o]
SomeRet(r) == [tag |-> "Some", val |-> r.val]
NoneRet == [tag |-> "None", val |-> ""]
Unset == [tag |-> "unset", val |-> ""]
NoKey == [v |-> 0, rev |-> 0]

NumKeys == Len(decl.keys)

\* if result != true { return result; }
\* Variant of EqDecisive: the test inverted.
EqDecisiveMut(result) == result = TRUE
EqDecisive(result) == result # TRUE

\* if result != ::core::cmp::Ordering::Equal { return result; }
\* Variant of CmpDecisive: only Greater ends the walk.
CmpDecisiveMut(result) == result = "Greater"
CmpDecisive(result) == result # "Equal"

\* PartialEq::eq as a function of its operands: the key blocks in order.
RECURSIVE EqFrom(_, _, _, _)
EqFrom(d, va, vb, k) ==
    IF k >= Len(d.keys)
    THEN TRUE
    ELSE LET result == KeyEq(KeyOf(d.param, d.keys[k + 1], va),
                             KeyOf(d.param, d.keys[k + 1], vb))
         IN  IF EqDecisive(result) THEN result ELSE EqFrom(d, va, vb, k + 1)
EqFn(d, va, vb) == EqFrom(d, va, vb, 0)

\* Ord::cmp as a function of its operands.
RECURSIVE CmpFrom(_, _, _, _)
CmpFrom(d, va, vb, k) ==
    IF k >= Len(d.keys)
    THEN "Equal"
    ELSE LET result == KeyCmp(KeyOf(d.param, d.keys[k + 1], va),
                              KeyOf(d.param, d.keys[k + 1], vb))
         IN  IF CmpDecisive(result) THEN result ELSE CmpFrom(d, va, vb, k + 1)
CmpFn(d, va, vb) == CmpFrom(d, va, vb, 0)

\* Where a returning method body continues.
AfterReturn == IF op = "partial_cmp" THEN "cmp_returned" ELSE "done"

\* let key_self = #structure_name::#key_selector_func_names(self);
EvalKeySelf ==
    /\ pc = "key_self"
    /\ i < NumKeys
    /\ \E o \in EvalKey(decl.param, decl.keys[i + 1], self) :
          /\ key_self' = o.key
          /\ pc' = IF o.ok THEN "key_other" ELSE "panicked"
    /\ evals' = Append(evals, <<i, "self">>)
    /\ UNCHANGED <<decl, self, other, op, frame, i, key_other, ret>>
    /\ UNCHANGED parseVars

\* let key_other = #structure_name::#key_selector_func_names(other);
EvalKeyOther ==
    /\ pc = "key_other"
    /\ \E o \in EvalKey(decl.param, decl.keys[i + 1], other) :
          /\ key_other' = o.key
          /\ pc' = IF o.ok THEN "compare" ELSE "panicked"
    /\ evals' = Append(evals, <<i, "other">>)
    /\ UNCHANGED <<decl, self, other, op, frame, i, key_self, ret>>
    /\ UNCHANGED parseVars

\* eq: let result = key_self.eq(&key_other); if result != true { return result; }
EqCompare ==
    /\ pc = "compare"
    /\ frame = "eq"
    /\ LET result == KeyEq(key_self, key_other)
       IN  IF EqDecisive(result)
           THEN /\ ret' = BoolRet(result)
                /\ pc' = AfterReturn
                /\ i' = i
           ELSE /\ ret' = ret
                /\ pc' = "key_self"
                /\ i' = i + 1
    /\ UNCHANGED <<decl, self, other, op, frame, key_self, key_other, evals>>
    /\ UNCHANGED parseVars

\* eq: return true;
EqReturnTrue ==
    /\ pc = "key_self"
    /\ frame = "eq"
    /\ i = NumKeys
    /\ ret' = BoolRet(TRUE)
    /\ pc' = AfterReturn
    /\ UNCHANGED <<decl, self, other, op, frame, i, key_self, key_other, evals>>
    /\ UNCHANGED parseVars

\* cmp: let result = key_self.cmp(&key_other); if result != Equal { return result; }
CmpCompare ==
    /\ pc = "compare"
    /\ frame = "cmp"
    /\ LET result == KeyCmp(key_self, key_other)
       IN  IF CmpDecisive(result)
           THEN /\ ret' = OrdRet(result)
                /\ pc' = AfterReturn
                /\ i' = i
           ELSE /\ ret' = ret
                /\ pc' = "key_self"
                /\ i' = i + 1
    /\ UNCHANGED <<decl, self, other, op, frame, key_self, key_other, evals>>
    /\ UNCHANGED parseVars

\* cmp: return ::core::cmp::Ordering::Equal;
CmpReturnEqual ==
    /\ pc = "key_self"
    /\ frame = "cmp"
    /\ i = NumKeys
    /\ ret' = OrdRet("Equal")
    /\ pc' = AfterReturn
    /\ UNCHANGED <<decl, self, other, op, frame, i, key_self, key_other, evals>>
    /\ UNCHANGED parseVars

\* partial_cmp: the call self.cmp(other)
PartialCmpCall ==
    /\ pc = "entry"
    /\ op = "partial_cmp"
    /\ frame' = "cmp"
    /\ pc' = "key_self"
    /\ UNCHANGED <<decl, self, other, op, i, key_self, key_other, ret, evals>>
    /\ UNCHANGED parseVars

\* partial_cmp: ::core::option::Option::Some( ... )
\* Variant of Wrap: Equal reported as incomparable.
WrapMut(r) == IF r.val = "Equal" THEN NoneRet ELSE SomeRet(r)
Wrap(r) == SomeRet(r)

PartialCmpReturn ==
    /\ pc = "cmp_returned"
    /\ op = "partial_cmp"
    /\ frame' = "partial_cmp"
    /\ ret' = Wrap(ret)
    /\ pc' = "done"
    /\ UNCHANGED <<decl, self, other, op, i, key_self, key_other, evals>>
    /\ UNCHANGED parseVars

(***************************************************************************)
(* The attribute parser.                                                   *)
(***************************************************************************)
\* Tokens.  A parenthesized group is one token holding its content; a key
\* expression is a single token, an identifier or a literal.
Bar == [k |-> "|", s |-> "", inner |-> <<>>]
Comma == [k |-> ",", s |-> "", inner |-> <<>>]
Id(n) == [k |-> "ident", s |-> n, inner |-> <<>>]
Lit(n) == [k |-> "lit", s |-> n, inner |-> <<>>]
Paren(ts) == [k |-> "paren", s |-> "", inner |-> ts]

NoParam == [kind |-> "none", names |-> <<>>]

\* input.is_empty()
IsEmpty == pos = Len(input)
\* the next token, when there is one
Peek == input[pos + 1]

\* input.peek(token::Paren)
PeekParen == (~IsEmpty) /\ Peek.k = "paren"

\* Ident::parse succeeds on t
IsIdent(t) == t.k = "ident"
\* Expr::parse succeeds on t
IsExpr(t) == t.k \in {"ident", "lit"}

\* content.parse_terminated(Ident::parse): identifiers separated by commas, the
\* input may end after an identifier or after a comma.
RECURSIVE ParseTerminated(_, _)
\* Variant of ParseTerminated: an empty list is an error.
ParseTerminatedMut(ts, acc) ==
    IF ts = <<>>
    THEN [ok |-> acc # <<>>, names |-> acc]
    ELSE IF ~IsIdent(Head(ts))
    THEN [ok |-> FALSE, names |-> <<>>]
    ELSE IF Len(ts) = 1
    THEN [ok |-> TRUE, names |-> Append(acc, ts[1].s)]
    ELSE IF ts[2] # Comma
    THEN [ok |-> FALSE, names |-> <<>>]
    ELSE ParseTerminated(SubSeq(ts, 3, Len(ts)), Append(acc, ts[1].s))
ParseTerminated(ts, acc) ==
    IF ts = <<>>
    THEN [ok |-> TRUE, names |-> acc]
    ELSE IF ~IsIdent(Head(ts))
    THEN [ok |-> FALSE, names |-> <<>>]
    ELSE IF Len(ts) = 1
    THEN [ok |-> TRUE, names |-> Append(acc, ts[1].s)]
    ELSE IF ts[2] # Comma
    THEN [ok |-> FALSE, names |-> <<>>]
    ELSE ParseTerminated(SubSeq(ts, 3, Len(ts)), Append(acc, ts[1].s))

\* _bar1: input.parse()?
ParseBar1 ==
    /\ ppc = "bar1"
    /\ IF (~IsEmpty) /\ Peek = Bar
       THEN pos' = pos + 1 /\ ppc' = "param"
       ELSE pos' = pos /\ ppc' = "error"
    /\ UNCHANGED <<input, param, exprs>>
    /\ UNCHANGED cmpVars

\* param: input.parse()?  with a parenthesized group next
ParseParamTuple ==
    /\ ppc = "param"
    /\ PeekParen
    /\ LET params == ParseTerminated(Peek.inner, <<>>)
       IN  IF params.ok
           THEN param' = Tuple(params.names) /\ pos' = pos + 1 /\ ppc' = "bar2"
           ELSE param' = param /\ pos' = pos /\ ppc' = "error"
    /\ UNCHANGED <<input, exprs>>
    /\ UNCHANGED cmpVars

\* param: input.parse()?  otherwise
ParseParamIdent ==
    /\ ppc = "param"
    /\ ~PeekParen
    /\ IF (~IsEmpty) /\ IsIdent(Peek)
       THEN param' = SingleIdentifier(Peek.s) /\ pos' = pos + 1 /\ ppc' = "bar2"
       ELSE param' = param /\ pos' = pos /\ ppc' = "error"
    /\ UNCHANGED <<input, exprs>>
    /\ UNCHANGED cmpVars

\* _bar2: input.parse()?
ParseBar2 ==
    /\ ppc = "bar2"
    /\ IF (~IsEmpty) /\ Peek = Bar
       THEN pos' = pos + 1 /\ ppc' = "expr"
       ELSE pos' = pos /\ ppc' = "error"
    /\ UNCHANGED <<input, param, exprs>>
    /\ UNCHANGED cmpVars

\* let expr: Expr = input.parse()?; exprs.push(expr); if input.is_empty() { break; }
ParseExpr ==
    /\ ppc = "expr"
    /\ IF (~IsEmpty) /\ IsExpr(Peek)
       THEN /\ exprs' = Append(exprs, Peek)
            /\ pos' = pos + 1
            /\ ppc' = IF pos + 1 = Len(input) THEN "ok" ELSE "comma"
       ELSE /\ exprs' = exprs
            /\ pos' = pos
            /\ ppc' = "error"
    /\ UNCHANGED <<input, param>>
    /\ UNCHANGED cmpVars

\* let _: Token!(,) = input.parse()?; if input.is_empty() { break; }
\* Variant of ParseComma: no break after the comma, so a trailing comma fails.
ParseCommaMut ==
    /\ ppc = "comma"
    /\ IF (~IsEmpty) /\ Peek = Comma
       THEN pos' = pos + 1 /\ ppc' = "expr"
       ELSE pos' = pos /\ ppc' = "error"
    /\ UNCHANGED <<input, param, exprs>>
    /\ UNCHANGED cmpVars
ParseComma ==
    /\ ppc = "comma"
    /\ IF (~IsEmpty) /\ Peek = Comma
       THEN pos' = pos + 1 /\ ppc' = IF pos + 1 = Len(input) THEN "ok" ELSE "expr"
       ELSE pos' = pos /\ ppc' = "error"
    /\ UNCHANGED <<input, param, exprs>>
    /\ UNCHANGED cmpVars

(***************************************************************************)
(* Inputs.                                                                 *)
(***************************************************************************)
\* Longest content of the binding's parenthesized group.
MaxGroupLen == 3
\* Longest token run after the second delimiter position.
MaxTail == 4

GroupToks == {Comma, Id("a"), Id("b")}
Groups == {Paren(ts) : ts \in SeqsOf(GroupToks, 0, MaxGroupLen)}
\* Tokens at the three leading positions; a group only where the binding is read.
HeadToks == {Bar, Id("a")}
Heads ==
    {<<>>}
    \cup {<<t1>> : t1 \in HeadToks}
    \cup {<<t1, t2>> : t1 \in HeadToks, t2 \in HeadToks \cup Groups}
    \cup {<<t1, t2, t3>> : t1 \in HeadToks, t2 \in HeadToks \cup Groups, t3 \in HeadToks}
\* Tokens of the key list: expressions and the separator.
TailToks == {Comma, Id("a"), Lit("1")}
Tails == SeqsOf(TailToks, 0, MaxTail)
Inputs == {h \o t : h \in {x \in Heads : Len(x) = 3}, t \in Tails}
          \cup {h \in Heads : Len(h) < 3}

\* The annotated structures: binding, key expressions and field types.
KeyLists(E) == SeqsOf(E, 1, MaxKeys)
Struct(p, fields, keys) == [param |-> p, fields |-> fields, keys |-> keys]
Decls ==
    {Struct(Tuple(<<"i">>), <<"wide">>, ks) :
        ks \in KeyLists({Var("i"), AbsOf(Var("i")), ReverseOf(Var("i"))})}
    \cup {Struct(SingleIdentifier("p"), <<"wide">>, ks) :
        ks \in KeyLists({Field("p", 0), AbsOf(Field("p", 0))})}
    \cup {Struct(SingleIdentifier("p"), <<"narrow", "narrow">>, ks) :
        ks \in KeyLists({Field("p", 0), Field("p", 1), ReverseOf(Field("p", 1))})}
    \cup {Struct(Tuple(<<"x", "y">>), <<"narrow", "narrow">>, ks) :
        ks \in KeyLists({Var("x"), Var("y")})}

Values(d) ==
    {v \in [1 .. Len(d.fields) -> WideVals \cup NarrowVals] :
        \A k \in 1 .. Len(d.fields) : v[k] \in FieldVals(d.fields[k])}

Ops == {"eq", "cmp", "partial_cmp"}

NoDecl == Struct(NoParam, <<>>, <<>>)

CmpIdle ==
    /\ decl = NoDecl
    /\ self = <<>>
    /\ other = <<>>
    /\ op = "none"
    /\ frame = "none"
    /\ i = 0
    /\ pc = "idle"
    /\ key_self = NoKey
    /\ key_other = NoKey
    /\ ret = Unset
    /\ evals = <<>>

ParseIdle ==
    /\ input = <<>>
    /\ pos = 0
    /\ ppc = "idle"
    /\ param = NoParam
    /\ exprs = <<>>

\* One call of a generated method on a pair of values.
Init ==
    /\ decl \in Decls
    /\ self \in Values(decl)
    /\ other \in Values(decl)
    /\ op \in Ops
    /\ frame = op
    /\ i = 0
    /\ pc = IF op = "partial_cmp" THEN "entry" ELSE "key_self"
    /\ key_self = NoKey
    /\ key_other = NoKey
    /\ ret = Unset
    /\ evals = <<>>
    /\ ParseIdle

Next ==
    \/ EvalKeySelf
    \/ EvalKeyOther
    \/ EqCompare
    \/ EqReturnTrue
    \/ CmpCompare
    \/ CmpReturnEqual
    \/ PartialCmpCall
    \/ PartialCmpReturn

Spec == Init /\ [][Next]_vars

\* One run of MacroAttribute::parse on a token stream.
ParseInit ==
    /\ input \in Inputs
    /\ pos = 0
    /\ ppc = "bar1"
    /\ param = NoParam
    /\ exprs = <<>>
    /\ CmpIdle

ParseNext ==
    \/ ParseBar1
    \/ ParseParamTuple
    \/ ParseParamIdent
    \/ ParseBar2
    \/ ParseExpr
    \/ ParseComma

ParseSpec == ParseInit /\ [][ParseNext]_vars

(***************************************************************************)
(* Properties of the generated comparison code (checked under Spec).       *)
(***************************************************************************)
\* The keys of the two operands at index k (0-based).
KeySelfAt(k) == KeyOf(decl.param, decl.keys[k + 1], self)
KeyOtherAt(k) == KeyOf(decl.param, decl.keys[k + 1], other)
KeyIndices == 0 .. (NumKeys - 1)
\* Indices whose key pair does not compare Equal / is not equal.
NotEqualOrd == {k \in KeyIndices : KeyCmp(KeySelfAt(k), KeyOtherAt(k)) # "Equal"}
NotEqualEq == {k \in KeyIndices : ~KeyEq(KeySelfAt(k), KeyOtherAt(k))}
MinOf(S) == CHOOSE k \in S : \A m \in S : k <= m
\* The field a plain key expression projects, read straight off the value.
IsPlain(e) == (~e.abs) /\ e.rev = 0
Projected(e, v) ==
    IF e.base = "field" THEN v[e.idx + 1] ELSE v[IndexOf(decl.param.names, e.name)]
Returned(o) == pc = "done" /\ op = o

\* C1: cmp(a, b) is the comparison of the key pair at the smallest index that
\* does not compare Equal, and Equal when every index compares Equal; with a
\* single key projecting field F it is F(a).cmp(F(b)).
C1_CmpFirstDecisiveKey ==
    Returned("cmp") =>
        /\ ret.tag = "Ordering"
        /\ ret.val = IF NotEqualOrd = {}
                     THEN "Equal"
                     ELSE KeyCmp(KeySelfAt(MinOf(NotEqualOrd)), KeyOtherAt(MinOf(NotEqualOrd)))
        /\ (NumKeys = 1 /\ IsPlain(decl.keys[1])) =>
              ret.val = IntCmp(Projected(decl.keys[1], self), Projected(decl.keys[1], other))

C1_Witness ==
    /\ Returned("cmp")
    /\ NumKeys = 2
    /\ NotEqualOrd = {1}
    /\ ret.val = "Greater"

\* C2: eq(a, b) is true iff every key pair is equal; it returns false at the
\* first key pair that is not equal.
C2_EqAllKeysEqual ==
    Returned("eq") =>
        /\ ret.tag = "bool"
        /\ (ret.val = "true") <=> (\A k \in KeyIndices : KeyEq(KeySelfAt(k), KeyOtherAt(k)))
        /\ ret.val = "false" =>
              /\ i = MinOf(NotEqualEq)
              /\ Len(evals) = 2 * (i + 1)

C2_Witness ==
    /\ Returned("eq")
    /\ NumKeys = 2
    /\ NotEqualEq = {1}
    /\ ret.val = "false"

\* The order in which a run that made m key function calls must have made them.
InOrder(m) == [j \in 1 .. m |-> <<(j - 1) \div 2, IF j % 2 = 1 THEN "self" ELSE "other">>]
\* The key pair at index k decides the running method.
DecidesAt(k) ==
    IF op = "eq"
    THEN ~KeyEq(KeySelfAt(k), KeyOtherAt(k))
    ELSE KeyCmp(KeySelfAt(k), KeyOtherAt(k)) # "Equal"

\* C3: in every run of eq, cmp and partial_cmp the key expressions are
\* evaluated in increasing index order, self before other, and no key
\* expression is evaluated at an index above one whose key pair was decisive.
C3_Lazy ==
    /\ evals = InOrder(Len(evals))
    /\ \A j \in 1 .. Len(evals) : \A k \in 0 .. (evals[j][1] - 1) : ~DecidesAt(k)

C3_Witness ==
    /\ pc = "done"
    /\ op = "partial_cmp"
    /\ NumKeys = 2
    /\ DecidesAt(0)
    /\ evals = <<(<<0, "self">>), (<<0, "other">>)>>

\* C4: cmp(a, b) is Equal exactly when eq(a, b) is true.
C4_CmpEqualIffEq ==
    /\ Returned("eq") => ((ret.val = "true") <=> (CmpFn(decl, self, other) = "Equal"))
    /\ Returned("cmp") => ((ret.val = "Equal") <=> EqFn(decl, self, other))

C4_Witness ==
    /\ Returned("cmp")
    /\ self # other
    /\ ret.val = "Equal"
    /\ EqFn(decl, self, other)

\* C5: partial_cmp(a, b) is Some(cmp(a, b)), never None.
C5_PartialCmpIsSomeCmp ==
    Returned("partial_cmp") =>
        /\ ret.tag = "Some"
        /\ ret.val = CmpFn(decl, self, other)
        /\ ret.val \in {"Less", "Equal", "Greater"}

C5_Witness ==
    /\ Returned("partial_cmp")
    /\ ret = [tag |-> "Some", val |-> "Equal"]
    /\ self # other

\* The structure with key j wrapped in Reverse.
ReversedAt(d, j) == [d EXCEPT !.keys[j + 1] = ReverseOf(@)]

\* C7: wrapping key j in Reverse inverts cmp(a, b) for the pairs whose first
\* decisive index is j, leaves it unchanged for all other pairs, and leaves
\* eq(a, b) unchanged.
C7_ReverseInvertsOneKey ==
    /\ Returned("cmp") =>
          \A j \in KeyIndices :
              LET wrapped == CmpFn(ReversedAt(decl, j), self, other)
              IN  IF NotEqualOrd # {} /\ MinOf(NotEqualOrd) = j
                  THEN wrapped = ReverseOrdering(ret.val) /\ wrapped # ret.val
                  ELSE wrapped = ret.val
    /\ Returned("eq") =>
          \A j \in KeyIndices :
              EqFn(ReversedAt(decl, j), self, other) <=> (ret.val = "true")

C7_Witness ==
    /\ Returned("cmp")
    /\ NumKeys = 2
    /\ NotEqualOrd = {1}
    /\ ret.val = "Less"
    /\ CmpFn(ReversedAt(decl, 1), self, other) = "Greater"
    /\ CmpFn(ReversedAt(decl, 0), self, other) = "Less"

\* #[ord_eq_by_key_selector(|(i)| i.abs(), i)] pub struct I32ByAbs(i32);
I32ByAbs == Struct(Tuple(<<"i">>), <<"wide">>, <<AbsOf(Var("i")), Var("i")>>)
\* The value i.abs() returns.
AbsKey(x) == WrapInt(AbsExact(x))

C10_TotalOrder ==
    Returned("cmp") =>
        /\ (self = other) => ret.val = "Equal"
        /\ CmpFn(decl, other, self) = ReverseOrdering(ret.val)
        /\ \A c \in Values(decl) :
              (ret.val = "Less" /\ CmpFn(decl, other, c) = "Less") =>
                  CmpFn(decl, self, c) = "Less"

C10_Witness ==
    /\ Returned("cmp")
    /\ NumKeys = 2
    /\ ret.val = "Less"
    /\ \E c \in Values(decl) :
          /\ CmpFn(decl, other, c) = "Less"
          /\ CmpFn(decl, self, c) = "Less"
          /\ c # self /\ c # other

(***************************************************************************)
(* Properties of the attribute parser (checked under ParseSpec).           *)
(***************************************************************************)
Odd(k) == k % 2 = 1
\* ts alternates items accepted by the test on the token kind with commas,
\* starting with an item.
IdentList(ts) ==
    \A k \in 1 .. Len(ts) : IF Odd(k) THEN ts[k].k = "ident" ELSE ts[k] = Comma
ExprList(ts) ==
    /\ Len(ts) >= 1
    /\ \A k \in 1 .. Len(ts) : IF Odd(k) THEN ts[k].k \in {"ident", "lit"} ELSE ts[k] = Comma
\* The items of an alternating list, in order.
Items(ts) == [k \in 1 .. ((Len(ts) + 1) \div 2) |-> ts[2 * k - 1]]
ItemNames(ts) == [k \in 1 .. ((Len(ts) + 1) \div 2) |-> ts[2 * k - 1].s]
Binding(t) == t.k = "ident" \/ (t.k = "paren" /\ IdentList(t.inner))
\* '|' binding '|' expr (',' expr)* ','?
WellFormed(ts) ==
    /\ Len(ts) >= 4
    /\ ts[1] = Bar
    /\ Binding(ts[2])
    /\ ts[3] = Bar
    /\ ExprList(SubSeq(ts, 4, Len(ts)))
Finished == ppc \in {"ok", "error"}

\* C6: the parse succeeds exactly on  '|' binding '|'  followed by a non-empty
\* comma-separated list of expressions with at most one trailing comma; the
\* keys are then the expressions in source order; every other input fails.
C6_ParsesExactlyTheGrammar ==
    /\ Finished => ((ppc = "ok") <=> WellFormed(input))
    /\ ppc = "ok" =>
          /\ pos = Len(input)
          /\ Len(exprs) >= 1
          /\ exprs = Items(SubSeq(input, 4, Len(input)))

C6_Witness ==
    /\ ppc = "ok"
    /\ exprs = <<Lit("1"), Id("a")>>
    /\ input[Len(input)] = Comma

C6_WitnessRejected ==
    /\ ppc = "error"
    /\ Len(input) = 6
    /\ SubSeq(input, 1, 3) = <<Bar, Id("a"), Bar>>
    /\ pos = 5

\* C9: a parenthesized group after the leading '|' is read as a comma-separated
\* list of zero or more identifiers and yields Tuple with the names in source
\* order (an empty group is accepted); anything else is read as one identifier
\* and yields SingleIdentifier; a non-identifier in either position fails.
C9_BindingRecognition ==
    (pos >= 1 /\ ppc # "param" /\ input[1] = Bar) =>
        IF param = NoParam
        THEN /\ ppc = "error"
             /\ pos = 1
             /\ (Len(input) >= 2) => ~Binding(input[2])
        ELSE /\ pos >= 2
             /\ IF input[2].k = "paren"
                THEN /\ IdentList(input[2].inner)
                     /\ param = Tuple(ItemNames(input[2].inner))
                ELSE /\ input[2].k = "ident"
                     /\ param = SingleIdentifier(input[2].s)

C9_Witness ==
    /\ ppc = "bar2"
    /\ input[2] = Paren(<<Id("b"), Comma, Id("a")>>)
    /\ param = Tuple(<<"b", "a">>)

C9_WitnessEmptyGroup ==
    /\ ppc = "ok"
    /\ input[2] = Paren(<<>>)
    /\ param = Tuple(<<>>)

====
